---- MODULE Spec2Model ----
(***************************************************************************)
(* Elastic similarity measures of tslearn/metrics.py: DTW, LR-DTW, GAK,     *)
(* their cross-similarity batch variants and the GAK bandwidth estimator.   *)
(*                                                                         *)
(* metrics.py holds the public wrappers.  The compiled engines (cydtw,      *)
(* cylrdtw, cygak) and the array adapters (tslearn.utils) are modelled      *)
(* from their design description; the wrappers are modelled from the code.  *)
(***************************************************************************)
EXTENDS Integers, Sequences, FiniteSets, Bags, TLC

\* ------------------------------------------------------------- bounds
MaxLen == 3          \* longest enumerated series
MaxVal == 1          \* enumerated series take their values in 0..MaxVal
MaxDs == 2           \* most series in an enumerated dataset
MaxSz == 2           \* longest series in an enumerated dataset
MaxSamples == 3      \* largest n_samples tried
RngPeriod == 4       \* states of the modelled random generator
MaxCalls == 2        \* sigma_gak calls in one run
MaxDim == 2          \* largest side of an enumerated probabilistic path
MaxMass == 2         \* its entries are drawn from 0..MaxMass

\* ------------------------------------------------------------- inputs
SeqsUpTo(S, n) == UNION {[1..k -> S] : k \in 1..n}

\* The series of the docstring examples (metrics.py lines 75-78, 109-114).
DocSeries == {<<1, 2, 3>>, <<1, 2, 2, 3>>, <<1, 2, 2, 3, 4>>, <<1, 2, 3, 4>>, <<2, 3, 4>>}

RawSeries == SeqsUpTo(0..MaxVal, MaxLen) \cup DocSeries

\* A dataset is a rectangular array: n_ts series of one length sz.  The
\* enumerated ones are binary-valued; the docstring ones are not.
DocDatasets == {<< <<1, 2, 2, 3>>, <<1, 2, 3, 4>> >>, << <<1, 2, 3>>, <<2, 3, 4>> >>}

RawDatasets ==
    UNION {[1..n -> [1..sz -> {0, 1}]] : n \in 1..MaxDs, sz \in 1..MaxSz}
        \cup DocDatasets

\* Bandwidths: invalid (<= 0) and valid ones.
Sigmas == {-1, 0, 1, 2}

SampleCounts == 0..MaxSamples

\* Probabilistic paths handed to the backtrace: any non-negative n x m matrix.
MassMatrices ==
    UNION {[(0..n - 1) \X (0..m - 1) -> 0..MaxMass] : n \in 1..MaxDim, m \in 1..MaxDim}

\* ------------------------------------------------------------- adapter
\* A raw one-dimensional series becomes a (length x 1) array of feature vectors.
npy2d_time_series(s) == [t \in 1..Len(s) |-> <<s[t]>>]

\* ------------------------------------------------------------- numbers
\* Grid cells are extended reals: a finite cost or +infinity.
Inf == [inf |-> TRUE, v |-> 0]
Fin(x) == [inf |-> FALSE, v |-> x]
\* a <= b on extended reals
Leq(a, b) == b.inf \/ (~a.inf /\ a.v <= b.v)
AddCost(c, a) == IF a.inf THEN Inf ELSE Fin(c + a.v)
\* The non-negative real sqrt(x), kept exact by its radicand.
SqrtOf(x) == [sqrt_of |-> x]

RECURSIVE SumSq(_, _, _)
SumSq(x, y, k) ==
    IF k = 0 THEN 0 ELSE (x[k] - y[k]) * (x[k] - y[k]) + SumSq(x, y, k - 1)

\* Squared Euclidean distance of two feature vectors.
SqDist(x, y) == SumSq(x, y, Len(x))

\* ------------------------------------------------------------- DTW engine
\* Index of the minimum of (diagonal, up, left), ties broken diagonal > up > left.
ArgMin3(diag, up, left) ==
    IF Leq(diag, up) /\ Leq(diag, left) THEN "diag"
    ELSE IF Leq(up, left) THEN "up"
    ELSE "left"

Min3(diag, up, left) ==
    LET k == ArgMin3(diag, up, left)
    IN  IF k = "diag" THEN diag ELSE IF k = "up" THEN up ELSE left

\* Row 0 and column 0 of an (n+1) x (m+1) grid: `origin` at (0, 0), `border` elsewhere.
boundary(n, m, origin, border) ==
    [c \in ({0} \X (0..m)) \cup ((0..n) \X {0}) |->
        IF c = <<0, 0>> THEN origin ELSE border]

\* Fills the grid row by row from cell (i, j) on.
RECURSIVE dtw_fill(_, _, _, _, _)
dtw_fill(D, s1, s2, i, j) ==
    IF i > Len(s1) THEN D
    ELSE IF j > Len(s2) THEN dtw_fill(D, s1, s2, i + 1, 1)
    ELSE LET cell == AddCost(SqDist(s1[i], s2[j]),
                             Min3(D[<<i - 1, j - 1>>], D[<<i - 1, j>>], D[<<i, j - 1>>]))
         IN  dtw_fill(D @@ (<<i, j>> :> cell), s1, s2, i, j + 1)

\* Slip: column 0 initialised to zero, so an alignment may start anywhere in s1.
cost_matrix_open_start(s1, s2) ==
    dtw_fill([c \in DOMAIN boundary(Len(s1), Len(s2), Fin(0), Inf) |->
                 IF c[1] = 0 /\ c[2] > 0 THEN Inf ELSE Fin(0)], s1, s2, 1, 1)

\* The (n+1) x (m+1) cumulative cost grid.
cost_matrix(s1, s2) ==
    dtw_fill(boundary(Len(s1), Len(s2), Fin(0), Inf), s1, s2, 1, 1)

\* Outcome of a call: what it returned or raised, and the steps it took
\* ("engine": a compiled engine was entered, "grid": a DP grid was built,
\* "sample": the random generator drew, "pdist": pairwise distances were taken).
Return(v, ev) == [error |-> "none", value |-> v, events |-> ev]
Raise(e) == [error |-> e, value |-> <<>>, events |-> <<>>]
\* The wrapper enters an engine with whatever arguments it was given.
Invoke(outcome) == [outcome EXCEPT !.events = <<"engine">> \o @]

\* Slip: the score read from the grid whose column 0 is zero.
cydtw_dtw_open_start(s1, s2) ==
    Return(SqrtOf(cost_matrix_open_start(s1, s2)[<<Len(s1), Len(s2)>>].v), <<"grid">>)

cydtw_dtw(s1, s2) ==
    Return(SqrtOf(cost_matrix(s1, s2)[<<Len(s1), Len(s2)>>].v), <<"grid">>)

\* Backtrace from grid cell (i, j): the 0-indexed pairs in backward order.
RECURSIVE dtw_backtrace(_, _, _)
dtw_backtrace(D, i, j) ==
    IF i = 0 /\ j = 0 THEN <<>>
    ELSE LET k == ArgMin3(D[<<i - 1, j - 1>>], D[<<i - 1, j>>], D[<<i, j - 1>>])
             pi == IF k = "left" THEN i ELSE i - 1
             pj == IF k = "up" THEN j ELSE j - 1
         IN  <<(<<i - 1, j - 1>>)>> \o dtw_backtrace(D, pi, pj)

Reverse(q) == [t \in 1..Len(q) |-> q[Len(q) + 1 - t]]

cydtw_dtw_path(s1, s2) ==
    LET D == cost_matrix(s1, s2)
    IN  Return([path |-> Reverse(dtw_backtrace(D, Len(s1), Len(s2))),
                score |-> SqrtOf(D[<<Len(s1), Len(s2)>>].v)], <<"grid">>)

\* ------------------------------------------------------------- DTW wrappers
\* Slip: the two series handed to the engine in the wrong order.
dtw_path_swapped(s1, s2) ==
    Invoke(cydtw_dtw_path(npy2d_time_series(s2), npy2d_time_series(s1)))

\* Slip: s2 converted from s1.
dtw_s2_from_s1(s1, s2) ==
    Invoke(cydtw_dtw(npy2d_time_series(s1), npy2d_time_series(s1)))

\* Slip: the engine's dtw_path called where dtw is meant.
dtw_returns_path(s1, s2) ==
    Invoke(cydtw_dtw_path(npy2d_time_series(s1), npy2d_time_series(s2)))

dtw_path(s1, s2) ==
    Invoke(cydtw_dtw_path(npy2d_time_series(s1), npy2d_time_series(s2)))

dtw(s1, s2) ==
    Invoke(cydtw_dtw(npy2d_time_series(s1), npy2d_time_series(s2)))

\* ------------------------------------------------------------- LR-DTW engine
\* The regularisation weights that are modelled: gamma = 0 (the hard limit) and a
\* negative, invalid one.  gamma > 0 needs exponentials, which integers do not have.
Gammas == {-1, 0}

\* Soft minimum of the three predecessors; at gamma = 0 it is the hard minimum.
soft_min(gamma, diag, up, left) == Min3(diag, up, left)

\* Contribution weight of each predecessor; at gamma = 0 the weights are one-hot.
predecessor_weights(gamma, diag, up, left) ==
    LET k == ArgMin3(diag, up, left)
    IN  [diag |-> IF k = "diag" THEN 1 ELSE 0,
         up   |-> IF k = "up" THEN 1 ELSE 0,
         left |-> IF k = "left" THEN 1 ELSE 0]

RECURSIVE lr_fill(_, _, _, _, _, _)
lr_fill(D, s1, s2, gamma, i, j) ==
    IF i > Len(s1) THEN D
    ELSE IF j > Len(s2) THEN lr_fill(D, s1, s2, gamma, i + 1, 1)
    ELSE LET cell == AddCost(SqDist(s1[i], s2[j]),
                             soft_min(gamma, D[<<i - 1, j - 1>>], D[<<i - 1, j>>],
                                      D[<<i, j - 1>>]))
         IN  lr_fill(D @@ (<<i, j>> :> cell), s1, s2, gamma, i, j + 1)

lr_cost_matrix(s1, s2, gamma) ==
    lr_fill(boundary(Len(s1), Len(s2), Fin(0), Inf), s1, s2, gamma, 1, 1)

\* The weights of grid cell (i, j), 1 <= i <= n, 1 <= j <= m.
lr_weights(D, gamma, i, j) ==
    predecessor_weights(gamma, D[<<i - 1, j - 1>>], D[<<i - 1, j>>], D[<<i, j - 1>>])

\* The n x m alignment mass, 0-indexed: the end cell holds 1 and every cell hands
\* its mass to its predecessors in proportion to their weights.
RECURSIVE mass_fill(_, _, _, _, _, _, _)
mass_fill(P, D, gamma, n, m, i, j) ==
    IF i < 1 THEN P
    ELSE IF j < 1 THEN mass_fill(P, D, gamma, n, m, i - 1, m)
    ELSE LET cell ==
                 IF i = n /\ j = m THEN 1
                 ELSE (IF i < n /\ j < m
                       THEN lr_weights(D, gamma, i + 1, j + 1).diag * P[<<i, j>>]
                       ELSE 0)
                    + (IF i < n THEN lr_weights(D, gamma, i + 1, j).up * P[<<i, j - 1>>]
                       ELSE 0)
                    + (IF j < m THEN lr_weights(D, gamma, i, j + 1).left * P[<<i - 1, j>>]
                       ELSE 0)
         IN  mass_fill(P @@ (<<i - 1, j - 1>> :> cell), D, gamma, n, m, i, j - 1)

probabilistic_path(D, gamma, n, m) == mass_fill(<<>>, D, gamma, n, m, n, m)

cylrdtw_lr_dtw(s1, s2, gamma) ==
    IF gamma < 0 THEN Raise("ParameterError")
    ELSE LET D == lr_cost_matrix(s1, s2, gamma)
         IN  Return(<<SqrtOf(D[<<Len(s1), Len(s2)>>].v),
                      probabilistic_path(D, gamma, Len(s1), Len(s2))>>, <<"grid">>)

Rows(P) == Cardinality({c[1] : c \in DOMAIN P})
Cols(P) == Cardinality({c[2] : c \in DOMAIN P})

\* An index as numpy reads it: a negative one counts from the end.
wrapped(P, i, j) ==
    P[<<IF i < 0 THEN i + Rows(P) ELSE i, IF j < 0 THEN j + Cols(P) ELSE j>>]

\* Slip: the three predecessors compared without a look at the matrix edge.
backtrace_step_unguarded(P, i, j) ==
    IF wrapped(P, i - 1, j - 1) >= wrapped(P, i - 1, j)
        /\ wrapped(P, i - 1, j - 1) >= wrapped(P, i, j - 1)
    THEN <<i - 1, j - 1>>
    ELSE IF wrapped(P, i - 1, j) >= wrapped(P, i, j - 1) THEN <<i - 1, j>>
    ELSE <<i, j - 1>>

\* One greedy step from cell (i, j) /= (0, 0): the predecessor inside the matrix
\* with the highest mass, ties broken diagonal > up > left.
backtrace_step(P, i, j) ==
    IF i > 0 /\ j > 0
    THEN IF P[<<i - 1, j - 1>>] >= P[<<i - 1, j>>] /\ P[<<i - 1, j - 1>>] >= P[<<i, j - 1>>]
         THEN <<i - 1, j - 1>>
         ELSE IF P[<<i - 1, j>>] >= P[<<i, j - 1>>] THEN <<i - 1, j>>
         ELSE <<i, j - 1>>
    ELSE IF i > 0 THEN <<i - 1, j>>
    ELSE <<i, j - 1>>

RECURSIVE greedy_backtrace(_, _, _)
greedy_backtrace(P, i, j) ==
    IF i = 0 /\ j = 0 THEN <<(<<0, 0>>)>>
    ELSE LET p == backtrace_step(P, i, j)
         IN  <<(<<i, j>>)>> \o greedy_backtrace(P, p[1], p[2])

cylrdtw_lr_dtw_backtrace(P) == Reverse(greedy_backtrace(P, Rows(P) - 1, Cols(P) - 1))

\* ------------------------------------------------------------- LR-DTW wrappers
\* Slip: the two series handed to the engine in the wrong order.
lr_dtw_path_swapped(s1, s2, gamma) ==
    LET r == Invoke(cylrdtw_lr_dtw(npy2d_time_series(s2), npy2d_time_series(s1), gamma))
    IN  IF r.error # "none" THEN r
        ELSE [r EXCEPT !.value = [path |-> cylrdtw_lr_dtw_backtrace(r.value[2]),
                                  score |-> r.value[1]],
                       !.events = @ \o <<"engine">>]

lr_dtw(s1, s2, gamma) ==
    LET r == Invoke(cylrdtw_lr_dtw(npy2d_time_series(s1), npy2d_time_series(s2), gamma))
    IN  IF r.error # "none" THEN r ELSE [r EXCEPT !.value = r.value[1]]

lr_dtw_path(s1, s2, gamma) ==
    LET r == Invoke(cylrdtw_lr_dtw(npy2d_time_series(s1), npy2d_time_series(s2), gamma))
    IN  IF r.error # "none" THEN r
        ELSE [r EXCEPT !.value = [path |-> cylrdtw_lr_dtw_backtrace(r.value[2]),
                                  score |-> r.value[1]],
                       !.events = @ \o <<"engine">>]

\* ------------------------------------------------------------- GAK engine
\* Kernel values are kept exact and symbolic.  The local kernel kappa(x, y)
\* depends on x and y only through their squared distance c; a grid cell is the
\* sum, over the alignment paths reaching it, of the product of kappa(c) / 3
\* along the path.  A product is the bag of its c's, a sum the bag of its products.
kernel_one == SetToBag({EmptyBag})
kernel_zero == EmptyBag

\* B * kappa(c) / 3
times_local_kernel(c, B) == BagOfAll(LAMBDA mono : mono (+) SetToBag({c}), B)

\* K[n][m] of the (n+1) x (m+1) kernel grid.
RECURSIVE gak_fill(_, _, _, _, _)
gak_fill(K, s1, s2, i, j) ==
    IF i > Len(s1) THEN K
    ELSE IF j > Len(s2) THEN gak_fill(K, s1, s2, i + 1, 1)
    ELSE LET cell == times_local_kernel(SqDist(s1[i], s2[j]),
                         K[<<i - 1, j>>] (+) K[<<i, j - 1>>] (+) K[<<i - 1, j - 1>>])
         IN  gak_fill(K @@ (<<i, j>> :> cell), s1, s2, i, j + 1)

unnormalized_gak(s1, s2) ==
    gak_fill(boundary(Len(s1), Len(s2), kernel_one, kernel_zero), s1, s2, 1, 1)
        [<<Len(s1), Len(s2)>>]

\* The real number 1.
One == [one |-> TRUE]

\* k12 / sqrt(k11 * k22) at bandwidth sigma: 1 when the three agree.
normalized(k12, k11, k22, sigma) ==
    IF k12 = k11 /\ k12 = k22 THEN One
    ELSE [num |-> k12, den |-> {k11, k22}, sigma |-> sigma]

gak_value(s1, s2, sigma) ==
    normalized(unnormalized_gak(s1, s2), unnormalized_gak(s1, s1),
               unnormalized_gak(s2, s2), sigma)

cygak_normalized_gak(s1, s2, sigma) ==
    IF sigma <= 0 THEN Raise("ParameterError")
    ELSE Return(gak_value(s1, s2, sigma), <<"grid">>)

gak(s1, s2, sigma) ==
    Invoke(cygak_normalized_gak(npy2d_time_series(s1), npy2d_time_series(s2), sigma))

\* ------------------------------------------------------------- cross similarity
npy3d_time_series_dataset(dataset) ==
    [k \in 1..Len(dataset) |-> npy2d_time_series(dataset[k])]

\* In self-similarity mode the upper triangle is computed, the lower one mirrors
\* it and the diagonal is set analytically (0 for DTW, 1 for GAK); otherwise
\* every cell is computed.
\* Slip: in self-similarity mode the lower triangle is left at its initial zero.
cydtw_cdist_dtw_unmirrored(d1, d2, self_similarity) ==
    Return([i \in 1..Len(d1) |-> [j \in 1..Len(d2) |->
               IF self_similarity /\ i >= j THEN SqrtOf(0)
               ELSE cydtw_dtw(d1[i], d2[j]).value]], <<"grid">>)

cydtw_cdist_dtw(d1, d2, self_similarity) ==
    Return([i \in 1..Len(d1) |-> [j \in 1..Len(d2) |->
               IF ~self_similarity THEN cydtw_dtw(d1[i], d2[j]).value
               ELSE IF i = j THEN SqrtOf(0)
               ELSE IF i < j THEN cydtw_dtw(d1[i], d1[j]).value
               ELSE cydtw_dtw(d1[j], d1[i]).value]], <<"grid">>)

cygak_cdist_gak(d1, d2, sigma, self_similarity) ==
    IF sigma <= 0 THEN Raise("ParameterError")
    ELSE Return([i \in 1..Len(d1) |-> [j \in 1..Len(d2) |->
                    IF ~self_similarity THEN gak_value(d1[i], d2[j], sigma)
                    ELSE IF i = j THEN One
                    ELSE IF i < j THEN gak_value(d1[i], d1[j], sigma)
                    ELSE gak_value(d1[j], d1[i], sigma)]], <<"grid">>)

\* dataset2 is optional: <<>> when omitted, <<d>> when given.
None == <<>>
Some(d) == <<d>>

cdist_dtw(dataset1, dataset2) ==
    LET d1 == npy3d_time_series_dataset(dataset1)
    IN  IF dataset2 = None
        THEN Invoke(cydtw_cdist_dtw(d1, d1, TRUE))
        ELSE Invoke(cydtw_cdist_dtw(d1, npy3d_time_series_dataset(dataset2[1]), FALSE))

\* Slip: the DTW batch engine called where the GAK one is meant.
cdist_gak_calls_dtw(dataset1, dataset2, sigma) ==
    cdist_dtw(dataset1, dataset2)

cdist_gak(dataset1, dataset2, sigma) ==
    LET d1 == npy3d_time_series_dataset(dataset1)
    IN  IF dataset2 = None
        THEN Invoke(cygak_cdist_gak(d1, d1, sigma, TRUE))
        ELSE Invoke(cygak_cdist_gak(d1, npy3d_time_series_dataset(dataset2[1]),
                                    sigma, FALSE))

\* ------------------------------------------------------------- bandwidth
\* numpy's process-wide generator, reduced to a counter: a draw from 0..hi is the
\* state modulo hi + 1, and every draw advances the state.
rng_draw(hi, s) == s % (hi + 1)
rng_advance(s) == (s + 1) % RngPeriod

Swap(x, i, j) == [x EXCEPT ![i] = x[j], ![j] = x[i]]

\* Fisher-Yates shuffle of x[1..i+1] (positions are 0-based in numpy).
RECURSIVE shuffle(_, _, _)
shuffle(x, i, s) ==
    IF i < 1 THEN [indices |-> x, rng |-> s]
    ELSE shuffle(Swap(x, i + 1, rng_draw(i, s) + 1), i - 1, rng_advance(s))

RECURSIVE randint(_, _, _)
randint(n, k, s) ==
    IF k = 0 THEN [indices |-> <<>>, rng |-> s]
    ELSE LET rest == randint(n, k - 1, rng_advance(s))
         IN  [indices |-> <<rng_draw(n - 1, s)>> \o rest.indices, rng |-> rest.rng]

\* numpy.random.choice(n, size=k, replace=replace) from generator state s.
random_choice(n, k, replace, s) ==
    IF replace THEN randint(n, k, s)
    ELSE LET perm == shuffle([t \in 1..n |-> t - 1], n - 1, s)
         IN  [indices |-> SubSeq(perm.indices, 1, k), rng |-> perm.rng]

\* Euclidean distance of two points (exact: the points have one feature).
euclidean(x, y) == CHOOSE r \in 0..SqDist(x, y) : r * r = SqDist(x, y)

\* scipy pdist: the distances of all pairs i < j, in row order.
RECURSIVE pdist_from(_, _, _)
pdist_from(X, i, j) ==
    IF i >= Len(X) THEN <<>>
    ELSE IF j > Len(X) THEN pdist_from(X, i + 1, i + 2)
    ELSE <<euclidean(X[i], X[j])>> \o pdist_from(X, i, j + 1)

pdist(X) == pdist_from(X, 1, 2)

RECURSIVE Sorted(_)
Sorted(q) ==
    IF q = <<>> THEN <<>>
    ELSE LET k == CHOOSE k \in 1..Len(q) : \A l \in 1..Len(q) : q[k] <= q[l]
         IN  <<q[k]>> \o Sorted([t \in 1..Len(q) - 1 |-> IF t < k THEN q[t] ELSE q[t + 1]])

NaN == [nan |-> TRUE]
\* The real sqrt(x) / 2
HalfSqrtOf(x) == [half_sqrt_of |-> x]

\* numpy.median(dists) * numpy.sqrt(sz); the median of no value is nan.
median_times_sqrt(dists, sz) ==
    IF dists = <<>> THEN NaN
    ELSE LET q == Sorted(dists)
             n == Len(q)
             twice == IF n % 2 = 1 THEN 2 * q[(n + 1) \div 2]
                      ELSE q[n \div 2] + q[(n \div 2) + 1]
         IN  HalfSqrtOf(twice * twice * sz)

\* Returns the outcome and the generator state the call leaves behind.
sigma_gak(dataset, n_samples, s) ==
    LET d3 == npy3d_time_series_dataset(dataset)
        n_ts == Len(d3)
        sz == Len(d3[1])
        replace == n_ts * sz < n_samples
        sample == random_choice(n_ts * sz, n_samples, replace, s)
        flat == [p \in 1..n_ts * sz |-> d3[((p - 1) \div sz) + 1][((p - 1) % sz) + 1]]
        points == [t \in 1..Len(sample.indices) |-> flat[sample.indices[t] + 1]]
    IN  [outcome |-> Return(median_times_sqrt(pdist(points), sz), <<"sample", "pdist">>),
         rng |-> sample.rng]

\* ------------------------------------------------------------- state
VARIABLES
    pc,        \* "idle" before the call, "returned" after it
    op,        \* the function called
    args,      \* its arguments
    result,    \* its outcome
    rng,       \* state of the process-wide random generator
    history,   \* the sigma_gak calls made so far: arguments and value
    bt_P,      \* backtrace: the probabilistic path
    bt_pos,    \* backtrace: the current cell
    bt_path    \* backtrace: the cells emitted so far, last cell first

vars == <<pc, op, args, result, rng, history, bt_P, bt_pos, bt_path>>

api_vars == <<pc, op, args, result, rng, history>>
bt_vars == <<bt_P, bt_pos, bt_path>>

InitApi ==
    /\ pc = "idle"
    /\ op = "none"
    /\ args = <<>>
    /\ result = Return(<<>>, <<>>)
    /\ history = <<>>

BacktraceStart(P) ==
    /\ bt_P = P
    /\ bt_pos = <<Rows(P) - 1, Cols(P) - 1>>
    /\ bt_path = <<(<<Rows(P) - 1, Cols(P) - 1>>)>>

\* A process whose generator is in its first state.
Init == InitApi /\ rng = 0 /\ BacktraceStart([c \in {<<0, 0>>} |-> 1])

Returns(name, a, r) ==
    /\ op' = name
    /\ args' = a
    /\ result' = r
    /\ pc' = "returned"

Call_dtw_path ==
    /\ pc = "idle"
    /\ \E s1 \in RawSeries, s2 \in RawSeries :
        Returns("dtw_path", <<s1, s2>>, dtw_path(s1, s2))
    /\ UNCHANGED <<rng, history, bt_vars>>

Call_dtw ==
    /\ pc = "idle"
    /\ \E s1 \in RawSeries, s2 \in RawSeries :
        Returns("dtw", <<s1, s2>>, dtw(s1, s2))
    /\ UNCHANGED <<rng, history, bt_vars>>

Call_lr_dtw ==
    /\ pc = "idle"
    /\ \E s1 \in RawSeries, s2 \in RawSeries, gamma \in Gammas :
        Returns("lr_dtw", <<s1, s2, gamma>>, lr_dtw(s1, s2, gamma))
    /\ UNCHANGED <<rng, history, bt_vars>>

Call_lr_dtw_path ==
    /\ pc = "idle"
    /\ \E s1 \in RawSeries, s2 \in RawSeries, gamma \in Gammas :
        Returns("lr_dtw_path", <<s1, s2, gamma>>, lr_dtw_path(s1, s2, gamma))
    /\ UNCHANGED <<rng, history, bt_vars>>

Call_gak ==
    /\ pc = "idle"
    /\ \E s1 \in RawSeries, s2 \in RawSeries, sigma \in Sigmas :
        Returns("gak", <<s1, s2, sigma>>, gak(s1, s2, sigma))
    /\ UNCHANGED <<rng, history, bt_vars>>

\* The second dataset is omitted, the first one again, or a docstring dataset.
SecondDatasets(d) == {None, Some(d)} \cup {Some(x) : x \in DocDatasets}

Call_cdist_dtw ==
    /\ pc = "idle"
    /\ \E d1 \in RawDatasets : \E d2 \in SecondDatasets(d1) :
        Returns("cdist_dtw", <<d1, d2>>, cdist_dtw(d1, d2))
    /\ UNCHANGED <<rng, history, bt_vars>>

Call_cdist_gak ==
    /\ pc = "idle"
    /\ \E d1 \in RawDatasets, sigma \in Sigmas : \E d2 \in SecondDatasets(d1) :
        Returns("cdist_gak", <<d1, d2, sigma>>, cdist_gak(d1, d2, sigma))
    /\ UNCHANGED <<rng, history, bt_vars>>

SigmaGakCall ==
    \E d \in RawDatasets, n_samples \in SampleCounts :
        LET r == sigma_gak(d, n_samples, rng)
        IN  /\ Returns("sigma_gak", <<d, n_samples>>, r.outcome)
            /\ rng' = r.rng
            /\ history' = Append(history, [dataset |-> d, n_samples |-> n_samples,
                                           value |-> r.outcome.value])

Call_sigma_gak ==
    /\ pc = "idle"
    /\ SigmaGakCall
    /\ UNCHANGED bt_vars

\* A further sigma_gak call in the same process.
Repeat_sigma_gak ==
    /\ pc = "returned"
    /\ op = "sigma_gak"
    /\ Len(history) < MaxCalls
    /\ SigmaGakCall
    /\ UNCHANGED bt_vars

\* One iteration of the backtrace loop.
BacktraceLoop ==
    /\ bt_pos # <<0, 0>>
    /\ bt_pos' = backtrace_step(bt_P, bt_pos[1], bt_pos[2])
    /\ bt_path' = Append(bt_path, bt_pos')
    /\ UNCHANGED <<bt_P, api_vars>>

Next ==
    \/ Call_dtw_path
    \/ Call_dtw
    \/ Call_cdist_dtw
    \/ Call_lr_dtw
    \/ Call_lr_dtw_path
    \/ Call_gak
    \/ Call_cdist_gak
    \/ Call_sigma_gak

\* Every function of the module, called once.
Spec == Init /\ [][Next]_vars

\* The single-pair DTW functions.
NextDtw == Call_dtw_path \/ Call_dtw
SpecDtw == Init /\ [][NextDtw]_vars

\* The single-pair LR-DTW functions.
NextLr == Call_lr_dtw \/ Call_lr_dtw_path
SpecLr == Init /\ [][NextLr]_vars

\* The cross-similarity functions.
NextCdist == Call_cdist_dtw \/ Call_cdist_gak
SpecCdist == Init /\ [][NextCdist]_vars

\* The bandwidth estimator, called repeatedly in one process.
NextSigma == Call_sigma_gak \/ Repeat_sigma_gak
InitSigma ==
    InitApi /\ rng \in 0..RngPeriod - 1 /\ BacktraceStart([c \in {<<0, 0>>} |-> 1])
SpecSigma == InitSigma /\ [][NextSigma]_vars

\* The backtrace loop on an arbitrary probabilistic path.
InitBacktrace == InitApi /\ rng = 0 /\ \E P \in MassMatrices : BacktraceStart(P)
SpecBacktrace == InitBacktrace /\ [][BacktraceLoop]_vars

\* ------------------------------------------------------------- properties
Returned(name) == pc = "returned" /\ op = name

\* A monotonic contiguous alignment path of an n x m pair: from (0, 0) to
\* (n-1, m-1), every step advancing i, j or both by exactly one.
IsAlignmentPath(path, n, m) ==
    /\ Len(path) >= 1
    /\ path[1] = <<0, 0>>
    /\ path[Len(path)] = <<n - 1, m - 1>>
    /\ \A k \in 1..Len(path) - 1 :
        <<path[k + 1][1] - path[k][1], path[k + 1][2] - path[k][2]>>
            \in {<<1, 0>>, <<0, 1>>, <<1, 1>>}

\* C1: the path dtw_path returns starts at (0,0), ends at (n-1, m-1) and advances
\* i, j or both by exactly one at every step.
C1_DtwPathIsAlignment ==
    Returned("dtw_path") =>
        /\ result.error = "none"
        /\ IsAlignmentPath(result.value.path, Len(args[1]), Len(args[2]))

\* A path of [1,2,3] against [1,2,2,3,4] that warps: five cells, not all diagonal.
C1_Witness ==
    /\ Returned("dtw_path")
    /\ args = << <<1, 2, 3>>, <<1, 2, 2, 3, 4>> >>
    /\ result.value.path = << <<0, 0>>, <<1, 1>>, <<1, 2>>, <<2, 3>>, <<2, 4>> >>

\* All alignment paths ending in cell (i, j), 0-indexed.
RECURSIVE PathsTo(_, _)
PathsTo(i, j) ==
    IF i < 0 \/ j < 0 THEN {}
    ELSE IF i = 0 /\ j = 0 THEN {<<(<<0, 0>>)>>}
    ELSE {Append(q, <<i, j>>) :
            q \in PathsTo(i - 1, j - 1) \cup PathsTo(i - 1, j) \cup PathsTo(i, j - 1)}

RECURSIVE PathCost(_, _, _, _)
PathCost(path, x, y, k) ==
    IF k = 0 THEN 0
    ELSE SqDist(x[path[k][1] + 1], y[path[k][2] + 1]) + PathCost(path, x, y, k - 1)

MinPathCost(s1, s2) ==
    LET x == npy2d_time_series(s1)
        y == npy2d_time_series(s2)
        costs == {PathCost(q, x, y, Len(q)) : q \in PathsTo(Len(s1) - 1, Len(s2) - 1)}
    IN  CHOOSE c \in costs : \A e \in costs : c <= e

\* C2: dtw(s1, s2) is the square root of the least sum of squared distances over
\* all alignment paths; it is 0 for [1,2,3], [1,2,2,3] and 1 for [1,2,3], [1,2,2,3,4].
C2_DtwIsMinimumOverPaths ==
    Returned("dtw") =>
        /\ result.error = "none"
        /\ result.value = SqrtOf(MinPathCost(args[1], args[2]))
        /\ args = << <<1, 2, 3>>, <<1, 2, 2, 3>> >> => result.value = SqrtOf(0)
        /\ args = << <<1, 2, 3>>, <<1, 2, 2, 3, 4>> >> => result.value = SqrtOf(1)

C2_Witness ==
    /\ Returned("dtw")
    /\ args = << <<1, 2, 3>>, <<1, 2, 2, 3, 4>> >>
    /\ result.value = SqrtOf(1)

\* C3: dtw(s, s) is exactly 0.
C3_DtwSelfIsZero ==
    (Returned("dtw") /\ args[1] = args[2]) =>
        result.error = "none" /\ result.value = SqrtOf(0)

C3_Witness ==
    /\ Returned("dtw")
    /\ args[1] = args[2]
    /\ Len(args[1]) = MaxLen
    /\ result.value = SqrtOf(0)

\* C4: dtw(s1, s2) equals dtw(s2, s1), also for series of different lengths.
C4_DtwSymmetric ==
    Returned("dtw") => result = dtw(args[2], args[1])

C4_Witness ==
    /\ Returned("dtw")
    /\ Len(args[1]) # Len(args[2])
    /\ result.value # SqrtOf(0)
    /\ result = dtw(args[2], args[1])

OneHot(w) == w.diag + w.up + w.left = 1 /\ {w.diag, w.up, w.left} = {0, 1}

IsSquare(M) == \A i \in 1..Len(M) : Len(M[i]) = Len(M)
IsSymmetric(M) == \A i \in 1..Len(M), j \in 1..Len(M) : M[i][j] = M[j][i]
HasDiagonal(M, v) == \A i \in 1..Len(M) : M[i][i] = v

\* C5: cdist_dtw(D) with dataset2 omitted returns the matrix of the cell-by-cell
\* computation cdist_dtw(D, D), whose cell (i, j) is dtw(D[i], D[j]); it is
\* symmetric with a zero diagonal.
C5_SelfSimilarityIsFullMatrix ==
    (Returned("cdist_dtw") /\ args[2] = None) =>
        /\ result.error = "none"
        /\ result.value = cdist_dtw(args[1], Some(args[1])).value
        /\ \A i \in 1..Len(args[1]), j \in 1..Len(args[1]) :
            result.value[i][j] = dtw(args[1][i], args[1][j]).value
        /\ IsSquare(result.value)
        /\ IsSymmetric(result.value)
        /\ HasDiagonal(result.value, SqrtOf(0))

\* The docstring dataset: [[0, 1], [1, 0]].
C5_Witness ==
    /\ Returned("cdist_dtw")
    /\ args = << << <<1, 2, 2, 3>>, <<1, 2, 3, 4>> >>, None >>
    /\ result.value = << <<SqrtOf(0), SqrtOf(1)>>, <<SqrtOf(1), SqrtOf(0)>> >>

\* C6: for sigma > 0, cdist_gak(D, sigma=sigma) with dataset2 omitted has every
\* diagonal entry equal to 1 and is symmetric.
C6_GakSelfSimilarityMatrix ==
    (Returned("cdist_gak") /\ args[2] = None /\ args[3] > 0) =>
        /\ result.error = "none"
        /\ IsSquare(result.value)
        /\ HasDiagonal(result.value, One)
        /\ IsSymmetric(result.value)

\* The docstring call, whose off-diagonal entries are not 1.
C6_Witness ==
    /\ Returned("cdist_gak")
    /\ args = << << <<1, 2, 2, 3>>, <<1, 2, 3, 4>> >>, None, 2 >>
    /\ result.value[1][2] # One
    /\ result.value[1][2] = result.value[2][1]
    /\ result.value[1][1] = One

\* C7: two sigma_gak calls with the same dataset and the same n_samples return the
\* same value, whatever the state of the process-wide generator and whatever was
\* called in between (the function takes no seed: the same one is every one).
C7_SigmaGakDeterministic ==
    \A a \in 1..Len(history), b \in 1..Len(history) :
        (history[a].dataset = history[b].dataset
            /\ history[a].n_samples = history[b].n_samples)
        => history[a].value = history[b].value

InvalidParameter ==
    \/ op \in {"gak", "cdist_gak"} /\ args[3] <= 0
    \/ op \in {"lr_dtw", "lr_dtw_path"} /\ args[3] < 0
    \/ op = "sigma_gak" /\ args[2] <= 0

Occurs(e, events) == \E k \in 1..Len(events) : events[k] = e

\* C8: a call with an invalid parameter (sigma <= 0, gamma < 0, n_samples <= 0)
\* fails with a parameter error, and before it no DP grid is built, no engine is
\* invoked and no sample is drawn.
C8_InvalidParametersRejected ==
    (pc = "returned" /\ InvalidParameter) =>
        /\ result.error = "ParameterError"
        /\ ~Occurs("grid", result.events)
        /\ ~Occurs("engine", result.events)
        /\ ~Occurs("sample", result.events)

====
